---- MODULE Spec2Model ----
(***************************************************************************)
(* One run of a Bright Data collection workflow, as implemented by the     *)
(* four collectors of zillow_api_scraper:                                  *)
(*   ZillowDiscoverPropertiesCollector       (zillow_discovered_properties)*)
(*   ZillowDiscoverPropertiesByUrlCollector  (..._by_url)                  *)
(*   ZillowPriceHistoryCollector             (zillow_price_history)        *)
(*   ZillowPropertiesCollector               (zillow_properties)           *)
(* The remote service and the file system are the environment: every       *)
(* request and every file operation draws its outcome with \E.  Each       *)
(* request, sleep and file write of the run is appended to `trace`.        *)
(* Local variables that are only logged (status_counts, elapsed) are not   *)
(* part of the state.                                                      *)
(***************************************************************************)
EXTENDS Integers, Sequences, FiniteSets

VARIABLES collector, filters, pc, cleaned, attempt, wait, snapshot_id,
          last_status, data, file, backups, trace, returns, now, api_token,
          total_pages, page, successful_pages, dataset,
          output_file, other, disk, start_time

\* the local variables of main() of free_zillow_scraper/property_data.py
mainVars == <<total_pages, page, successful_pages, dataset>>

\* a second run of collect_properties in another thread: `other` holds the
\* locals of the run that is not executing, `output_file` is the argument of
\* the run that is, and `disk` the files under the other paths
threadVars == <<output_file, other, disk>>

vars == <<collector, filters, pc, cleaned, attempt, wait, snapshot_id,
          last_status, data, file, backups, trace, returns, now, api_token,
          mainVars, threadVars, start_time>>

----------------------------------------------------------------------------
(* Bounds of the model *)

MaxFilters == 2     \* longest input list
MaxPolls == 2       \* status queries of one run (the loop itself has no cap)
MaxSaves == 3       \* calls of _save_data in SpecSave
MaxTime == 1        \* last second of the clock in SpecSave

----------------------------------------------------------------------------
(* Values *)

Discover == "ZillowDiscoverPropertiesCollector"
ByUrl == "ZillowDiscoverPropertiesByUrlCollector"
PriceHistory == "ZillowPriceHistoryCollector"
Properties == "ZillowPropertiesCollector"

SimpleCollectors == {ByUrl, PriceHistory, Properties}
Collectors == {Discover} \cup SimpleCollectors

NoneVal == "<None>"          \* Python's None
RetTrue == "True"
RetFalse == "False"
RetNone == "None"
RetRaised == "raised"        \* an exception leaves collect_*

Whitespace == {" "}

SeqsUpTo(S, n) == UNION {[1..k -> S] : k \in 0..n}

\* field values of the input records: "", " ", "a", " a "
Strs == {<<>>, <<" ">>, <<"a">>, <<" ", "a", " ">>}

\* an input record is a dict: a function from the keys it has to strings
FilterKeys == {"location"}
FilterRecords == UNION {[D -> Strs] : D \in SUBSET FilterKeys}
UrlRecords == {[k \in {"url"} |-> <<"a">>]}

Inputs(c) ==
  IF c = Discover THEN SeqsUpTo(FilterRecords, MaxFilters)
  ELSE SeqsUpTo(UrlRecords, 1)

\* what the remote service can answer to a status query
ReportedStatuses == {"queued", "running", "ready", "failed", "error", "other"}
MissingStatus == "<no status field>"
TransportFailure == "<RequestException>"
\* an exception that is not a RequestException, e.g. the AttributeError of
\* `.get` on a JSON body that is not an object
Fault == "<Exception>"
StatusOutcomes ==
  ReportedStatuses \cup {MissingStatus, TransportFailure, Fault}

SnapshotIds == {"s1", "s2"}

\* the JSON object of a successful trigger response
EmptyDict == [k \in {} |-> "x"]
TriggerResponses ==
  {EmptyDict, [k \in {"error"} |-> "x"]}
  \cup {[k \in {"snapshot_id"} |-> id] : id \in SnapshotIds}

\* outcome of one trigger request
TriggerOutcomes ==
  {[kind |-> "ok", resp |-> r] : r \in TriggerResponses}
  \cup {[kind |-> k, resp |-> EmptyDict] :
          k \in {"429", "http", "reqexc", "fault"}}

\* outcome of one fetch request: a result set, a RequestException, or (fault)
\* another exception
ResultSets == {<<>>, <<1>>, <<2, 1>>}
FetchOutcomes ==
  {[ok |-> TRUE, data |-> d, fault |-> FALSE] : d \in ResultSets}
  \cup {[ok |-> FALSE, data |-> <<>>, fault |-> f] : f \in BOOLEAN}

\* the destination file
NoFile == [exists |-> FALSE, content |-> <<>>, complete |-> FALSE]
OldFile == [exists |-> TRUE, content |-> <<0>>, complete |-> TRUE]

\* the `.bak_<timestamp>` siblings of the destination, by timestamp
NoBackups == [t \in {} |-> NoFile]

\* an entry of the trace; `at` is the second at which it happened
Event(op, arg, out) == [op |-> op, arg |-> arg, out |-> out, at |-> now]

Indices(op) == {i \in 1..Len(trace) : trace[i].op = op}
Count(op) == Cardinality(Indices(op))

----------------------------------------------------------------------------
(* ZillowDiscoverPropertiesCollector._clean_filters *)

RECURSIVE LStrip(_)
LStrip(s) ==
  IF s = <<>> THEN s
  ELSE IF Head(s) \in Whitespace THEN LStrip(Tail(s)) ELSE s

RECURSIVE RStrip(_)
RStrip(s) ==
  IF s = <<>> THEN s
  ELSE IF s[Len(s)] \in Whitespace THEN RStrip(SubSeq(s, 1, Len(s) - 1)) ELSE s

\* str.strip()
Strip(s) == RStrip(LStrip(s))

KeepsValueNoStrip(v) == Len(v) > 0

\* `v and v.strip()`
KeepsValue(v) == Len(v) > 0 /\ Len(Strip(v)) > 0

\* {k: v for k, v in f.items() if v and v.strip()}
clean_filter(f) == [k \in {x \in DOMAIN f : KeepsValue(f[x])} |-> f[k]]

HasLocationMut(cf) == TRUE

\* clean_filter.get("location")
HasLocation(cf) == "location" \in DOMAIN cf /\ Len(cf["location"]) > 0

RECURSIVE _clean_filters(_)
_clean_filters(fs) ==
  IF fs = <<>> THEN <<>>
  ELSE IF HasLocation(clean_filter(Head(fs)))
       THEN <<clean_filter(Head(fs))>> \o _clean_filters(Tail(fs))
       ELSE _clean_filters(Tail(fs))

----------------------------------------------------------------------------
(* Constants and decisions of the code *)

MaxTriggerAttemptsMut == 3 + 1

\* for attempt in range(3)
MaxTriggerAttempts == 3

\* if attempt == 2: return None
LastAttempt == 2

\* time.sleep(1) after a RequestException of the trigger request
RequestRetrySleep == 1

PollIntervalMut == 5 - 5

\* time.sleep(5) between status queries
PollInterval == 5

RECURSIVE Pow2(_)
Pow2(n) == IF n = 0 THEN 1 ELSE 2 * Pow2(n - 1)

\* wait = 2 ** (attempt + 1)
RetryWait(a) == Pow2(a + 1)

TriggerRetriesMut(kind) == kind \in {"429", "reqexc", "http"}

\* the except branches of _trigger_collection that go on to the next attempt
TriggerRetries(kind) == kind \in {"429", "reqexc"}

_check_statusMut(c, out) ==
  IF out \in {TransportFailure, MissingStatus} THEN "error" ELSE out

\* response.json().get("status", "unknown") / .get("status"); "error" on a
\* RequestException
_check_status(c, out) ==
  IF out = TransportFailure THEN "error"
  ELSE IF out = MissingStatus THEN (IF c = Discover THEN "unknown" ELSE NoneVal)
  ELSE out

IsReadyMut(status) == status \in {"ready", "running"}

\* status == "ready"
IsReady(status) == status = "ready"

IsFailedMut(status) == status = "failed"

\* status in ["failed", "error"]
IsFailed(status) == status \in {"failed", "error"}

snapshot_id_ofMut(collection_response) == "s1"

\* snapshot_id = collection_response["snapshot_id"]
snapshot_id_of(collection_response) == collection_response["snapshot_id"]

TriggerRejectedMut(resp) == DOMAIN resp = {}

\* `not collection_response or "snapshot_id" not in collection_response`
TriggerRejected(resp) == DOMAIN resp = {} \/ "snapshot_id" \notin DOMAIN resp

_fetch_dataMut(o) == IF Len(o.data) > 1 THEN Tail(o.data) ELSE o.data

\* the value _fetch_data returns: response.json(), or None (no records)
_fetch_data(o) == o.data

HasDataMut(r) == TRUE

\* truth value of the list (or None) that _fetch_data returned
HasData(r) == r.ok /\ Len(r.data) > 0

----------------------------------------------------------------------------
(* Initial state: a constructed collector, collect_* about to be called *)

\* the default of the parameter output_file of collect_properties
DefaultOutputFile == "zillow_discovered_properties.json"

\* one run only: no other thread, no other file
NoThread ==
  /\ output_file = DefaultOutputFile
  /\ other = [pc |-> "absent"]
  /\ disk = [n \in {} |-> NoFile]

\* main() of free_zillow_scraper is not running
NoMain ==
  /\ total_pages = 0
  /\ page = 1
  /\ successful_pages = 0
  /\ dataset = [results |-> <<>>]

Init ==
  /\ collector \in Collectors
  /\ filters \in Inputs(collector)
  /\ pc = "start"
  /\ cleaned = <<>>
  /\ attempt = 0
  /\ wait = 0
  /\ snapshot_id = NoneVal
  /\ last_status = NoneVal
  /\ data = <<>>
  /\ file \in {NoFile, OldFile}
  /\ backups = NoBackups
  /\ trace = <<>>
  /\ returns = <<>>
  /\ now = 0
  /\ start_time = now
  /\ api_token = "token"
  /\ NoMain
  /\ NoThread

Return(v) == pc' = "done" /\ returns' = Append(returns, v)

\* the exception classes that `except Exception` catches; KeyboardInterrupt
\* is a BaseException only
ExceptionSubclasses == {"Exception", "OSError", "RequestException"}

CollectCatchesMut(c, exc) == c = Discover /\ exc = "RequestException"

\* `try: ... except Exception` around the body of collect_properties of the
\* discover collector; the other collectors have no handler
CollectCatches(c, exc) == c = Discover /\ exc \in ExceptionSubclasses

\* an exception of class exc raised inside collect_*
Raise(exc) ==
  Return(IF CollectCatches(collector, exc) THEN RetFalse ELSE RetRaised)

----------------------------------------------------------------------------
(* ZillowDiscoverPropertiesCollector *)

\* collect_properties up to the call of _trigger_collection
DiscoverCollect ==
  /\ collector = Discover
  /\ pc = "start"
  /\ \E fault \in BOOLEAN :
       IF fault
         THEN \* a value that is not a string: AttributeError of v.strip()
              Raise("Exception") /\ UNCHANGED cleaned
         ELSE /\ cleaned' = _clean_filters(filters)
              /\ IF cleaned' = <<>>
                   THEN Return(RetFalse)
                   ELSE pc' = "trigger" /\ UNCHANGED returns
  /\ UNCHANGED <<api_token, start_time, mainVars, threadVars, now, collector, filters, attempt, wait, snapshot_id, last_status,
                 data, file, backups, trace>>

\* one attempt of the loop of _trigger_collection, and on a returned value
\* the check of it in collect_properties
DiscoverTrigger ==
  /\ collector = Discover
  /\ pc = "trigger"
  /\ \E o \in TriggerOutcomes :
       /\ trace' = Append(trace, Event("trigger", cleaned, o))
       /\ IF o.kind = "ok"
            THEN IF TriggerRejected(o.resp)
                   THEN Return(RetFalse) /\ UNCHANGED <<snapshot_id, wait>>
                 ELSE IF "snapshot_id" \notin DOMAIN o.resp
                   THEN \* KeyError of collection_response["snapshot_id"]
                        Raise("Exception") /\ UNCHANGED <<snapshot_id, wait>>
                   ELSE /\ snapshot_id' = snapshot_id_of(o.resp)
                        /\ pc' = "poll"
                        /\ UNCHANGED <<returns, wait>>
            ELSE IF o.kind = "fault"
                   THEN Raise("Exception") /\ UNCHANGED <<snapshot_id, wait>>
            ELSE IF ~TriggerRetries(o.kind)
                   THEN Return(RetFalse) /\ UNCHANGED <<snapshot_id, wait>>
            ELSE IF o.kind = "429"
                   THEN /\ wait' = RetryWait(attempt)
                        /\ pc' = "trigger_sleep"
                        /\ UNCHANGED <<returns, snapshot_id>>
            ELSE IF attempt = LastAttempt
                   THEN Return(RetFalse) /\ UNCHANGED <<snapshot_id, wait>>
                   ELSE /\ wait' = RequestRetrySleep
                        /\ pc' = "trigger_sleep"
                        /\ UNCHANGED <<returns, snapshot_id>>
  /\ UNCHANGED <<api_token, start_time, mainVars, threadVars, now, collector, filters, cleaned, attempt, last_status, data,
                 file, backups>>

\* time.sleep(wait) in _trigger_collection, then the next attempt or the
\* `return None` after the loop
DiscoverTriggerSleep ==
  /\ collector = Discover
  /\ pc = "trigger_sleep"
  /\ trace' = Append(trace, Event("sleep", wait, "trigger"))
  /\ attempt' = attempt + 1
  /\ IF attempt + 1 < MaxTriggerAttempts
       THEN pc' = "trigger" /\ UNCHANGED returns
       ELSE Return(RetFalse)
  /\ UNCHANGED <<api_token, start_time, mainVars, threadVars, now, collector, filters, cleaned, wait, snapshot_id, last_status,
                 data, file, backups>>

\* one iteration of the loop of _monitor_collection up to its return or sleep
DiscoverCheckStatus ==
  /\ collector = Discover
  /\ pc = "poll"
  /\ Count("status") < MaxPolls
  /\ \E o \in StatusOutcomes :
       LET status == _check_status(collector, o) IN
       /\ trace' = Append(trace, Event("status", snapshot_id, o))
       /\ IF o = Fault
            THEN Raise("Exception") /\ UNCHANGED last_status
            ELSE /\ last_status' = status
                 /\ IF IsReady(status)
                      THEN pc' = "fetch" /\ UNCHANGED returns
                      ELSE IF IsFailed(status)
                             THEN Return(RetFalse)
                             ELSE pc' = "poll_sleep" /\ UNCHANGED returns
  /\ UNCHANGED <<api_token, start_time, mainVars, threadVars, now, collector, filters, cleaned, attempt, wait, snapshot_id,
                 data, file, backups>>

\* time.sleep(5) of _monitor_collection
DiscoverPollSleep ==
  /\ collector = Discover
  /\ pc = "poll_sleep"
  /\ trace' = Append(trace, Event("sleep", PollInterval, "poll"))
  /\ pc' = "poll"
  /\ UNCHANGED <<api_token, start_time, mainVars, threadVars, now, collector, filters, cleaned, attempt, wait, snapshot_id,
                 last_status, data, file, backups, returns>>

\* `return self._fetch_data(snapshot_id)` and the check of the returned value
\* in collect_properties
DiscoverFetch ==
  /\ collector = Discover
  /\ pc = "fetch"
  /\ \E o \in FetchOutcomes :
       /\ trace' = Append(trace, Event("fetch", snapshot_id, o))
       /\ IF o.fault
            THEN Raise("Exception") /\ UNCHANGED data
            ELSE /\ data' = _fetch_data(o)
                 /\ IF HasData(o)
                      THEN pc' = "save" /\ UNCHANGED returns
                      ELSE Return(RetFalse)
  /\ UNCHANGED <<api_token, start_time, mainVars, threadVars, now, collector, filters, cleaned, attempt, wait, snapshot_id,
                 last_status, file, backups>>

\* datetime.now().strftime("%Y%m%d_%H%M%S"): the time to the second
Timestamp(t) == t

NeedsBackupMut(f) == FALSE

\* `backup and os.path.exists(filename)` with backup=True, the default
NeedsBackup(f) == f.exists

\* _save_data(d, filename) of the discover collector: the rename of an
\* existing destination to its backup name (which replaces a backup of that
\* name), then the write.  o is what the file system does: "rename_fail" and
\* "write_fail" are an OSError of os.rename and of open/json.dump, which is
\* logged and raised again; a failed write leaves no file or (partial) an
\* incomplete one.
_save_data(d, o, partial) ==
  /\ (o = "rename_fail") => NeedsBackup(file)
  /\ (o # "write_fail") => ~partial
  /\ trace' = Append(trace, Event("save", d, o))
  /\ backups' = IF NeedsBackup(file) /\ o # "rename_fail"
                  THEN [t \in DOMAIN backups \cup {Timestamp(now)} |->
                          IF t = Timestamp(now) THEN file ELSE backups[t]]
                  ELSE backups
  /\ file' = CASE o = "ok" ->
                    [exists |-> TRUE, content |-> d, complete |-> TRUE]
               [] o = "rename_fail" -> file
               [] o = "write_fail" ->
                    IF partial
                      THEN [exists |-> TRUE, content |-> d, complete |-> FALSE]
                      ELSE IF NeedsBackup(file) THEN NoFile ELSE file

SaveOutcomes == {"ok", "rename_fail", "write_fail"}

\* _save_data(properties_data, output_file) and the end of collect_properties:
\* an exception of _save_data is caught by collect_properties
DiscoverSave ==
  /\ collector = Discover
  /\ pc = "save"
  /\ \E o \in SaveOutcomes, partial \in BOOLEAN :
       /\ _save_data(data, o, partial)
       /\ IF o = "ok" THEN Return(RetTrue) ELSE Raise("OSError")
  /\ UNCHANGED <<api_token, start_time, mainVars, threadVars, now, collector, filters, cleaned, attempt, wait, snapshot_id,
                 last_status, data>>

----------------------------------------------------------------------------
(* ZillowDiscoverPropertiesByUrlCollector, ZillowPriceHistoryCollector,     *)
(* ZillowPropertiesCollector: the same code up to names                    *)

\* collect_* up to the loop: one trigger request, no retry
SimpleTrigger ==
  /\ collector \in SimpleCollectors
  /\ pc = "start"
  /\ \E o \in TriggerOutcomes :
       /\ trace' = Append(trace, Event("trigger", filters, o))
       /\ IF o.kind = "fault"
            THEN Raise("Exception") /\ UNCHANGED snapshot_id
          ELSE IF o.kind # "ok" \/ TriggerRejected(o.resp)
            THEN Return(RetNone) /\ UNCHANGED snapshot_id
          ELSE IF "snapshot_id" \notin DOMAIN o.resp
            THEN \* KeyError of collection_response["snapshot_id"]
                 Raise("Exception") /\ UNCHANGED snapshot_id
            ELSE /\ snapshot_id' = snapshot_id_of(o.resp)
                 /\ pc' = "poll"
                 /\ UNCHANGED returns
  /\ UNCHANGED <<api_token, start_time, mainVars, threadVars, now, collector, filters, cleaned, attempt, wait, last_status,
                 data, file, backups>>

\* one iteration of the loop up to the call of _fetch_data, a return or the
\* sleep
SimpleCheckStatus ==
  /\ collector \in SimpleCollectors
  /\ pc = "poll"
  /\ Count("status") < MaxPolls
  /\ \E o \in StatusOutcomes :
       LET status == _check_status(collector, o) IN
       /\ trace' = Append(trace, Event("status", snapshot_id, o))
       /\ IF o = Fault
            THEN Raise("Exception") /\ UNCHANGED last_status
          ELSE IF status # last_status /\ IsFailed(status)
            THEN Return(RetNone) /\ UNCHANGED last_status
            ELSE /\ last_status' = status
                 /\ IF IsReady(status)
                      THEN pc' = "fetch" /\ UNCHANGED returns
                      ELSE IF IsFailed(status)
                             THEN Return(RetNone)
                             ELSE pc' = "poll_sleep" /\ UNCHANGED returns
  /\ UNCHANGED <<api_token, start_time, mainVars, threadVars, now, collector, filters, cleaned, attempt, wait, snapshot_id,
                 data, file, backups>>

\* time.sleep(5) at the end of the loop body
SimplePollSleep ==
  /\ collector \in SimpleCollectors
  /\ pc = "poll_sleep"
  /\ trace' = Append(trace, Event("sleep", PollInterval, "poll"))
  /\ pc' = "poll"
  /\ UNCHANGED <<api_token, start_time, mainVars, threadVars, now, collector, filters, cleaned, attempt, wait, snapshot_id,
                 last_status, data, file, backups, returns>>

\* _fetch_data(snapshot_id) in the `ready` branch; without data the loop
\* body falls through to the sleep
SimpleFetch ==
  /\ collector \in SimpleCollectors
  /\ pc = "fetch"
  /\ \E o \in FetchOutcomes :
       /\ trace' = Append(trace, Event("fetch", snapshot_id, o))
       /\ IF o.fault
            THEN Raise("Exception") /\ UNCHANGED data
            ELSE /\ data' = _fetch_data(o)
                 /\ pc' = IF HasData(o) THEN "save" ELSE "poll_sleep"
                 /\ UNCHANGED returns
  /\ UNCHANGED <<api_token, start_time, mainVars, threadVars, now, collector, filters, cleaned, attempt, wait, snapshot_id,
                 last_status, file, backups>>

\* _save_data(data) and `return True`: _save_data logs an exception of the
\* write and returns normally
SimpleSave ==
  /\ collector \in SimpleCollectors
  /\ pc = "save"
  /\ \E o \in {"ok", "write_fail"}, partial \in BOOLEAN :
       /\ (o # "write_fail") => ~partial
       /\ trace' = Append(trace, Event("save", data, o))
       /\ file' = IF o = "ok"
                    THEN [exists |-> TRUE, content |-> data, complete |-> TRUE]
                    ELSE IF partial
                           THEN [exists |-> TRUE, content |-> data,
                                 complete |-> FALSE]
                           ELSE file
       /\ Return(RetTrue)
  /\ UNCHANGED <<api_token, start_time, mainVars, threadVars, now, collector, filters, cleaned, attempt, wait, snapshot_id,
                 last_status, data, backups>>

----------------------------------------------------------------------------

Next ==
  \/ DiscoverCollect
  \/ DiscoverTrigger
  \/ DiscoverTriggerSleep
  \/ DiscoverCheckStatus
  \/ DiscoverPollSleep
  \/ DiscoverFetch
  \/ DiscoverSave
  \/ SimpleTrigger
  \/ SimpleCheckStatus
  \/ SimplePollSleep
  \/ SimpleFetch
  \/ SimpleSave

Spec == Init /\ [][Next]_vars

----------------------------------------------------------------------------
(* Construction of a collector followed by one run.                        *)

\* the values a caller passes as api_token
Tokens == {"token", "", NoneVal}

\* `not api_token`
TokenAbsent(tok) == tok \in {"", NoneVal}

\* `if not api_token: raise ValueError(...)` is in the constructor of the
\* discover collector only
RequiresToken(c) == c = Discover

InitConstruct ==
  /\ collector \in Collectors
  /\ filters \in Inputs(collector)
  /\ Len(filters) <= 1
  /\ pc = "new"
  /\ cleaned = <<>>
  /\ attempt = 0
  /\ wait = 0
  /\ snapshot_id = NoneVal
  /\ last_status = NoneVal
  /\ data = <<>>
  /\ file = NoFile
  /\ backups = NoBackups
  /\ trace = <<>>
  /\ returns = <<>>
  /\ now = 0
  /\ start_time = now
  /\ api_token \in Tokens
  /\ NoMain
  /\ NoThread

\* __init__(api_token); after it the caller calls collect_*
Construct ==
  /\ pc = "new"
  /\ pc' = IF RequiresToken(collector) /\ TokenAbsent(api_token)
             THEN "ValueError"
             ELSE "start"
  /\ UNCHANGED <<api_token, start_time, mainVars, threadVars, now, collector, filters, cleaned, attempt,
                 wait, snapshot_id, last_status, data, file, backups, trace,
                 returns>>

NextConstruct == Construct \/ Next

SpecConstruct == InitConstruct /\ [][NextConstruct]_vars

----------------------------------------------------------------------------
(* The start of a run of the discover collector on filter records with a   *)
(* second field: _clean_filters and the first trigger request.             *)

CleanKeys == {"location", "HomeType"}

CleanRecords == UNION {[D -> Strs] : D \in SUBSET CleanKeys}

InitClean ==
  /\ collector = Discover
  /\ filters \in SeqsUpTo(CleanRecords, MaxFilters)
  /\ pc = "start"
  /\ cleaned = <<>>
  /\ attempt = 0
  /\ wait = 0
  /\ snapshot_id = NoneVal
  /\ last_status = NoneVal
  /\ data = <<>>
  /\ file = NoFile
  /\ backups = NoBackups
  /\ trace = <<>>
  /\ returns = <<>>
  /\ now = 0
  /\ start_time = now
  /\ api_token = "token"
  /\ NoMain
  /\ NoThread

NextClean == DiscoverCollect \/ DiscoverTrigger

SpecClean == InitClean /\ [][NextClean]_vars

----------------------------------------------------------------------------
(* The elapsed time that the poll loop logs with a terminal status:        *)
(* start_time = datetime.now() at the start of the run, then               *)
(* elapsed = (datetime.now() - start_time).seconds after a status query.   *)

MaxElapses == 3   \* the stretches of time that pass before the observation

\* a timedelta is normalised to days and 0 <= seconds < 86400
SecondsPerDay == 86400

timedelta(d) == [days |-> d \div SecondsPerDay, seconds |-> d % SecondsPerDay]

\* (datetime.now() - start_time).seconds
elapsed(start, t) == timedelta(t - start).seconds

\* the time that passes in the loop while the job is not yet terminal: a
\* second of a request, a sleep of the poll interval, or many iterations
Durations == {1, PollInterval, SecondsPerDay - 1, SecondsPerDay}

InitElapsed ==
  /\ collector \in Collectors
  /\ filters = <<>>
  /\ pc = "poll"
  /\ cleaned = <<>>
  /\ attempt = 0
  /\ wait = 0
  /\ snapshot_id = "s1"
  /\ last_status = NoneVal
  /\ data = <<>>
  /\ file = NoFile
  /\ backups = NoBackups
  /\ trace = <<>>
  /\ returns = <<>>
  /\ now = 0
  /\ start_time = now
  /\ api_token = "token"
  /\ NoMain
  /\ NoThread

\* iterations of the loop with a non-terminal status
Elapse ==
  /\ pc = "poll"
  /\ Count("elapse") < MaxElapses
  /\ \E d \in Durations :
       /\ now' = now + d
       /\ trace' = Append(trace, Event("elapse", d, "poll"))
  /\ UNCHANGED <<api_token, start_time, mainVars, threadVars, collector,
                 filters, pc, cleaned, attempt, wait, snapshot_id, last_status,
                 data, file, backups, returns>>

\* the iteration that gets a terminal status and logs `elapsed` with it
LogElapsed ==
  /\ pc = "poll"
  /\ \E status \in {"ready", "failed", "error"} :
       /\ last_status' = status
       /\ trace' = Append(trace, Event("elapsed", status,
                                       elapsed(start_time, now)))
  /\ pc' = "terminal"
  /\ UNCHANGED <<api_token, start_time, mainVars, threadVars, now, collector,
                 filters, cleaned, attempt, wait, snapshot_id, data, file,
                 backups, returns>>

NextElapsed == Elapse \/ LogElapsed

SpecElapsed == InitElapsed /\ [][NextElapsed]_vars

----------------------------------------------------------------------------
(* Two runs of collect_properties of one discover collector in two         *)
(* threads, each with its own output_file.  The variables of the single    *)
(* run are the locals of the thread that is executing; Switch is the       *)
(* context switch.  The collector object (api_token, headers) is not       *)
(* written after construction; the file system is common to both threads.  *)

MaxRunEvents == 4   \* requests, sleeps and writes of one of the two runs

OutputFiles == {"out1", "out2"}

PathMut(filename) == "out1"

\* the file that os.path.exists, os.rename and open address by `filename`
Path(filename) == filename

\* the files before the two runs
InitialFile(path) == IF path = "out1" THEN OldFile ELSE NoFile

ThreadInputs == {<<[k \in {"location"} |-> v]>> : v \in {<<" ">>, <<"a">>}}

\* the parameters and local variables of one call of collect_properties, with
\* the observations of that call
Locals ==
  [filters |-> filters, output_file |-> output_file, pc |-> pc,
   cleaned |-> cleaned, attempt |-> attempt, wait |-> wait,
   snapshot_id |-> snapshot_id, last_status |-> last_status, data |-> data,
   trace |-> trace, returns |-> returns]

InitThreads ==
  /\ collector = Discover
  /\ filters \in ThreadInputs
  /\ pc = "start"
  /\ cleaned = <<>>
  /\ attempt = 0
  /\ wait = 0
  /\ snapshot_id = NoneVal
  /\ last_status = NoneVal
  /\ data = <<>>
  /\ output_file = "out1"
  /\ disk = [path \in {Path(n) : n \in OutputFiles} |->
               [file |-> InitialFile(path), backups |-> NoBackups]]
  /\ file = disk[Path(output_file)].file
  /\ backups = disk[Path(output_file)].backups
  /\ trace = <<>>
  /\ returns = <<>>
  /\ now = 0
  /\ start_time = now
  /\ api_token = "token"
  /\ NoMain
  /\ \E f \in ThreadInputs :
       other = [filters |-> f, output_file |-> "out2", pc |-> "start",
                cleaned |-> <<>>, attempt |-> 0, wait |-> 0,
                snapshot_id |-> NoneVal, last_status |-> NoneVal,
                data |-> <<>>, trace |-> <<>>, returns |-> <<>>]

\* the files of the file system, the destination of the executing run included
FileSystem ==
  [disk EXCEPT ![Path(output_file)] = [file |-> file, backups |-> backups]]

\* the interpreter passes control to the other thread
Switch ==
  /\ other.pc # "done"
  /\ other' = Locals
  /\ filters' = other.filters
  /\ output_file' = other.output_file
  /\ pc' = other.pc
  /\ cleaned' = other.cleaned
  /\ attempt' = other.attempt
  /\ wait' = other.wait
  /\ snapshot_id' = other.snapshot_id
  /\ last_status' = other.last_status
  /\ data' = other.data
  /\ trace' = other.trace
  /\ returns' = other.returns
  /\ disk' = FileSystem
  /\ file' = FileSystem[Path(other.output_file)].file
  /\ backups' = FileSystem[Path(other.output_file)].backups
  /\ UNCHANGED <<api_token, start_time, mainVars, now, collector>>

\* a step of the thread that is executing
DiscoverNext ==
  /\ Len(trace) < MaxRunEvents
  /\ \/ DiscoverCollect
     \/ DiscoverTrigger
     \/ DiscoverTriggerSleep
     \/ DiscoverCheckStatus
     \/ DiscoverPollSleep
     \/ DiscoverFetch
     \/ DiscoverSave

NextThreads == DiscoverNext \/ Switch

SpecThreads == InitThreads /\ [][NextThreads]_vars

----------------------------------------------------------------------------
(* A run that is interrupted from outside.  The collectors take no          *)
(* cancellation token, flag or event; the one signal that reaches a run is  *)
(* SIGINT, which Python raises as KeyboardInterrupt in the running          *)
(* statement of the poll loop (the status request or time.sleep).           *)

InitCancel == Init /\ Len(filters) <= 1 /\ file = NoFile

Interrupt ==
  /\ pc \in {"poll", "poll_sleep"}
  /\ trace' = Append(trace, Event("cancel", pc, "KeyboardInterrupt"))
  /\ Raise("KeyboardInterrupt")
  /\ UNCHANGED <<api_token, start_time, mainVars, threadVars, now, collector, filters, cleaned, attempt, wait, snapshot_id,
                 last_status, data, file, backups>>

NextCancel == Next \/ Interrupt

SpecCancel == InitCancel /\ [][NextCancel]_vars

----------------------------------------------------------------------------
(* ZillowDiscoverPropertiesCollector._save_data called repeatedly on one   *)
(* destination, with the clock running                                     *)

InitSave ==
  /\ collector = Discover
  /\ filters = <<>>
  /\ pc = "save_data"
  /\ cleaned = <<>>
  /\ attempt = 0
  /\ wait = 0
  /\ snapshot_id = NoneVal
  /\ last_status = NoneVal
  /\ data = <<>>
  /\ file \in {NoFile, OldFile}
  /\ backups = NoBackups
  /\ trace = <<>>
  /\ returns = <<>>
  /\ now = 0
  /\ start_time = now
  /\ api_token = "token"
  /\ NoMain
  /\ NoThread

\* one call _save_data(d, filename); an exception goes to the caller
SaveCall ==
  /\ pc = "save_data"
  /\ Count("save") < MaxSaves
  /\ \E d \in ResultSets, o \in SaveOutcomes, partial \in BOOLEAN :
       /\ _save_data(d, o, partial)
       /\ data' = d
  /\ UNCHANGED <<api_token, start_time, mainVars, threadVars, now, collector, filters, pc, cleaned, attempt, wait,
                 snapshot_id, last_status, returns>>

\* a second passes
Tick ==
  /\ pc = "save_data"
  /\ now < MaxTime
  /\ now' = now + 1
  /\ UNCHANGED <<api_token, start_time, mainVars, threadVars, collector, filters, pc, cleaned, attempt,
                 wait, snapshot_id, last_status, data, file, backups, trace,
                 returns>>

NextSave == SaveCall \/ Tick

SpecSave == InitSave /\ [][NextSave]_vars

----------------------------------------------------------------------------
(* main() of free_zillow_scraper/property_data.py: one search request per  *)
(* page, the pages that answered collected in `dataset`, then one write.   *)

\* get_user_input(): the number of pages of the search
get_user_input == 5

\* the `listResults` of a response body
ListResults == {<<>>, <<[zpid |-> 1]>>, <<[zpid |-> 1], [zpid |-> 2]>>}

\* what requests.put(...) and raise_for_status() of one page come to: a
\* RequestException, or a body with its listResults
PageOutcomes ==
  {[ok |-> FALSE, listResults |-> <<>>]}
    \cup {[ok |-> TRUE, listResults |-> l] : l \in ListResults}

\* the None that fetch_page_data returns after a RequestException
NonePage == [none |-> TRUE]

parse_property_data(property_data) == [id |-> property_data.zpid]

process_api_response(response_data, page_num) ==
  [page_number |-> page_num,
   properties |-> [i \in 1..Len(response_data) |->
                     parse_property_data(response_data[i])]]

fetch_page_data(o, p) ==
  IF o.ok THEN process_api_response(o.listResults, p) ELSE NonePage

TruthyMut(page_data) ==
  page_data # NonePage /\ Len(page_data.properties) > 0

\* `if page_data:` None is false, a dict with keys is true
Truthy(page_data) == page_data # NonePage /\ DOMAIN page_data # {}

RECURSIVE total_properties_of(_)
\* sum(len(page["properties"]) for page in dataset["results"])
total_properties_of(results) ==
  IF results = <<>> THEN 0
  ELSE Len(Head(results).properties) + total_properties_of(Tail(results))

InitMain ==
  /\ collector = Discover
  /\ filters = <<>>
  /\ pc = "main"
  /\ cleaned = <<>>
  /\ attempt = 0
  /\ wait = 0
  /\ snapshot_id = NoneVal
  /\ last_status = NoneVal
  /\ data = <<>>
  /\ file \in {NoFile, OldFile}
  /\ backups = NoBackups
  /\ trace = <<>>
  /\ returns = <<>>
  /\ now = 0
  /\ start_time = now
  /\ api_token = "token"
  /\ total_pages = get_user_input
  /\ page = 1
  /\ successful_pages = 0
  /\ dataset = [results |-> <<>>]
  /\ NoThread

\* one iteration of `for page in range(1, total_pages + 1)`
FetchPage ==
  /\ pc = "main"
  /\ page <= total_pages
  /\ \E o \in PageOutcomes :
       LET page_data == fetch_page_data(o, page) IN
         /\ trace' = Append(trace, Event("page", page, o))
         /\ IF Truthy(page_data)
              THEN /\ dataset' = [dataset EXCEPT
                                    !.results = Append(@, page_data)]
                   /\ successful_pages' = successful_pages + 1
              ELSE UNCHANGED <<dataset, successful_pages>>
  /\ page' = page + 1
  /\ UNCHANGED <<api_token, start_time, threadVars, total_pages, now, collector, filters, pc, cleaned,
                 attempt, wait, snapshot_id, last_status, data, file, backups,
                 returns>>

\* after the loop: the two metadata entries, then save_results, whose
\* open/json.dump may raise out of main
Summary ==
  /\ pc = "main"
  /\ page > total_pages
  /\ dataset' = [results |-> dataset.results,
                  pages_received |-> successful_pages,
                  total_properties |-> total_properties_of(dataset.results)]
  /\ \E written \in BOOLEAN :
       /\ file' = [exists |-> TRUE, content |-> dataset.results,
                    complete |-> written]
       /\ Return(IF written THEN RetNone ELSE RetRaised)
  /\ UNCHANGED <<api_token, start_time, threadVars, total_pages, page, successful_pages, now,
                 collector, filters, cleaned, attempt, wait, snapshot_id,
                 last_status, data, backups, trace>>

NextMain == FetchPage \/ Summary

SpecMain == InitMain /\ [][NextMain]_vars

----------------------------------------------------------------------------
(* Observations on the trace of a run *)

Done == pc = "done"

Last == trace[Len(trace)]

ReadySeen == \E i \in Indices("status") : trace[i].out = "ready"

\* a status query answered `failed` or `error` with no `ready` before it
FailedBeforeReady ==
  \E i \in Indices("status") :
    /\ trace[i].out \in {"failed", "error"}
    /\ \A j \in Indices("status") : j < i => trace[j].out # "ready"

SleepsOf(kind) ==
  LET idx == {i \in Indices("sleep") : trace[i].out = kind}
      RECURSIVE Collect(_)
      Collect(i) ==
        IF i > Len(trace) THEN <<>>
        ELSE IF i \in idx THEN <<trace[i].arg>> \o Collect(i + 1)
        ELSE Collect(i + 1)
  IN Collect(1)

AllTriggersRateLimited ==
  /\ Indices("trigger") # {}
  /\ \A i \in Indices("trigger") : trace[i].out.kind = "429"

\* python's `not v or not v.strip()` stated on the characters of the value
Blank(v) == \A i \in 1..Len(v) : v[i] \in Whitespace

AllLocationsBlank ==
  \A i \in 1..Len(filters) :
    "location" \in DOMAIN filters[i] => Blank(filters[i]["location"])

----------------------------------------------------------------------------
(* C1: a run returns success at most once, and only after one of its own   *)
(* status queries was answered `ready`.                                    *)
C1_SuccessOnlyAfterReady ==
  /\ Cardinality({i \in 1..Len(returns) : returns[i] = RetTrue}) <= 1
  /\ (\E i \in 1..Len(returns) : returns[i] = RetTrue) => ReadySeen

C1_Witness ==
  /\ returns = <<RetTrue>>
  /\ ReadySeen
  /\ \E i \in Indices("status") : trace[i].out \in {"queued", "running"}

(* C2: once `failed` or `error` is observed before any `ready`, the run    *)
(* has reported failure and has sent no fetch request and written no file. *)
C2_FailedMeansNoFetchNoSave ==
  FailedBeforeReady =>
    /\ Done
    /\ Len(returns) = 1
    /\ returns[1] \in {RetFalse, RetNone}
    /\ Count("fetch") = 0
    /\ Count("save") = 0

C2_Witness ==
  /\ FailedBeforeReady
  /\ Done
  /\ Count("status") >= 2
  /\ Last.out = "error"

(* C3: a transport failure of a status query does not end the run: the     *)
(* loop goes on to its sleep and the next query.                           *)
C3_TransportFailureKeepsPolling ==
  (Len(trace) > 0 /\ Last.op = "status" /\ Last.out = TransportFailure)
    => (pc = "poll_sleep" /\ returns = <<>>)

(* C4: the discover collector, given only records with a missing or blank  *)
(* location, returns False without any request, sleep or file write.       *)
C4_NoValidFiltersNoRequest ==
  (collector = Discover /\ AllLocationsBlank /\ pc # "start") =>
    /\ Done
    /\ returns = <<RetFalse>>
    /\ trace = <<>>
    /\ backups = NoBackups
    /\ file \in {NoFile, OldFile}

C4_Witness ==
  /\ collector = Discover
  /\ Done
  /\ Len(filters) = MaxFilters
  /\ \E i \in 1..Len(filters) :
       "location" \in DOMAIN filters[i] /\ Len(filters[i]["location"]) > 0
  /\ AllLocationsBlank

(* C5: when every trigger request of the discover collector is answered    *)
(* 429, the run ends after exactly 3 trigger requests, returns False and    *)
(* sends no status query.                                                  *)
C5_RateLimitedThreeAttempts ==
  (collector = Discover /\ AllTriggersRateLimited) =>
    /\ Count("trigger") <= 3
    /\ Count("status") = 0
    /\ Done <=> (Count("trigger") = 3 /\ Last.op = "sleep")
    /\ Done => returns = <<RetFalse>>

C5_Witness ==
  /\ collector = Discover
  /\ AllTriggersRateLimited
  /\ Done
  /\ Count("trigger") = 3

(* C6: when every trigger request is answered 429, the delays slept by     *)
(* _trigger_collection are exactly 2 then 4, none after the third attempt. *)
C6_BackoffDelaysTwoThenFour ==
  (collector = Discover /\ AllTriggersRateLimited /\ Done)
    => SleepsOf("trigger") = <<2, 4>>

(* C7 as stated: in the discover collector only a 429 answer is followed   *)
(* by another trigger request.                                             *)
C7_OnlyRateLimitRetried ==
  collector = Discover =>
    \A i \in Indices("trigger") :
      (\E j \in Indices("trigger") : j > i) => trace[i].out.kind = "429"

(* C7 amended: only a 429 answer or a request failure without HTTP error    *)
(* status (timeout, connection error) is followed by another trigger       *)
(* request; an HTTP error status other than 429 ends the run with False    *)
(* at once.                                                                *)
C7_HttpErrorNotRetried ==
  collector = Discover =>
    \A i \in 1..Len(trace) :
      trace[i].op = "trigger" =>
        /\ (\E j \in (i + 1)..Len(trace) : trace[j].op = "trigger")
             => trace[i].out.kind \in {"429", "reqexc"}
        /\ trace[i].out.kind = "http"
             => (i = Len(trace) /\ Done /\ returns = <<RetFalse>>)

C7_Witness ==
  /\ collector = Discover
  /\ Done
  /\ Count("trigger") = 2
  /\ trace[1].out.kind = "reqexc"
  /\ Last.op = "trigger"
  /\ Last.out.kind = "http"

(* C8: a run sends at most one fetch request, and a fetch that fails ends  *)
(* the run with failure.                                                   *)
C8_SingleFetchNoRetry ==
  /\ Count("fetch") <= 1
  /\ (Len(trace) > 0 /\ Last.op = "fetch" /\ ~Last.out.ok) =>
       (Done /\ returns # <<RetTrue>>)

(* C9: a run returns True only if the result set was written to the        *)
(* destination.                                                            *)
C9_SuccessMeansWritten ==
  returns = <<RetTrue>> =>
    /\ Last.op = "save"
    /\ Last.out = "ok"
    /\ file = [exists |-> TRUE, content |-> Last.arg, complete |-> TRUE]

(* C10: no status query before a trigger response with a job id, no fetch  *)
(* before a status query answered `ready`, no file write before a fetch    *)
(* returned a result.                                                      *)
C10_StagesInOrder ==
  \A i \in 1..Len(trace) :
    /\ trace[i].op = "status" =>
         \E j \in 1..(i - 1) :
           /\ trace[j].op = "trigger"
           /\ trace[j].out.kind = "ok"
           /\ "snapshot_id" \in DOMAIN trace[j].out.resp
    /\ trace[i].op = "fetch" =>
         \E j \in 1..(i - 1) :
           trace[j].op = "status" /\ trace[j].out = "ready"
    /\ trace[i].op = "save" =>
         \E j \in 1..(i - 1) : trace[j].op = "fetch" /\ trace[j].out.ok

C10_Witness ==
  /\ Count("save") = 1
  /\ Count("fetch") = 1
  /\ Count("status") = MaxPolls
  /\ Count("trigger") >= 1

(* C11: when a run returns True, the content handed to _save_data is       *)
(* exactly the result set that the run's fetch request returned.           *)
C11_SavedIsFetched ==
  returns = <<RetTrue>> =>
    /\ Len(trace) >= 2
    /\ Last.op = "save"
    /\ trace[Len(trace) - 1].op = "fetch"
    /\ trace[Len(trace) - 1].out.ok
    /\ Last.arg = trace[Len(trace) - 1].out.data

C11_Witness ==
  /\ returns = <<RetTrue>>
  /\ Last.op = "save"
  /\ Last.arg = <<2, 1>>

(* C12: in the discover collector, once a fetch request has returned a     *)
(* result set (an empty one included) and no file operation failed, the    *)
(* result set is in the destination and the run returned True.             *)
C12_FetchedIsPersisted ==
  (/\ collector = Discover
   /\ Done
   /\ \E i \in Indices("fetch") : trace[i].out.ok
   /\ \A i \in Indices("save") : trace[i].out = "ok") =>
    /\ returns = <<RetTrue>>
    /\ \E i \in Indices("fetch") :
         file = [exists |-> TRUE, content |-> trace[i].out.data,
                 complete |-> TRUE]

(* C13: once a status query observes `ready`, `failed` or `error`, the     *)
(* poll loop is left: the run neither sleeps for the poll interval nor     *)
(* queries the status again.                                               *)
C13_TerminalStatusLeavesLoop ==
  \A i \in Indices("status") :
    trace[i].out \in {"ready", "failed", "error"} =>
      \A j \in (i + 1)..Len(trace) : trace[j].op \notin {"status", "sleep"}

(* C14: a call of collect_properties of the discover collector that ends   *)
(* returns True or False, whichever step raised.                           *)
C14_DiscoverReturnsBoolean ==
  (collector = Discover /\ Done) => returns \in {<<RetTrue>>, <<RetFalse>>}

C14_Witness ==
  /\ collector = Discover
  /\ returns = <<RetFalse>>
  /\ Len(trace) >= 2
  /\ Last.op = "status"
  /\ Last.out = Fault

(* C15: a trigger response received without a `snapshot_id` field ends the *)
(* run with failure: no status query, no fetch request, no file write.     *)
C15_NoSnapshotIdIsFailure ==
  \A i \in Indices("trigger") :
    (trace[i].out.kind = "ok" /\ "snapshot_id" \notin DOMAIN trace[i].out.resp)
      => /\ i = Len(trace)
         /\ Done
         /\ returns \in {<<RetFalse>>, <<RetNone>>}

C15_Witness ==
  /\ Done
  /\ Len(trace) > 0
  /\ Last.op = "trigger"
  /\ Last.out.kind = "ok"
  /\ DOMAIN Last.out.resp = {"error"}

(* C16: after two consecutive successful calls of _save_data on one        *)
(* destination the backup named after the time of the second call holds    *)
(* the content of the first call and the destination that of the second.   *)
C16_BackupHoldsFirstWrite ==
  LET n == Len(trace) IN
  (n >= 2 /\ trace[n].op = "save" /\ trace[n - 1].op = "save"
     /\ trace[n].out = "ok" /\ trace[n - 1].out = "ok") =>
    /\ file = [exists |-> TRUE, content |-> trace[n].arg, complete |-> TRUE]
    /\ Timestamp(trace[n].at) \in DOMAIN backups
    /\ backups[Timestamp(trace[n].at)] =
         [exists |-> TRUE, content |-> trace[n - 1].arg, complete |-> TRUE]

C16_Witness ==
  LET n == Len(trace) IN
  /\ pc = "save_data"
  /\ n >= 2
  /\ trace[n].out = "ok"
  /\ trace[n - 1].out = "ok"
  /\ trace[n - 1].arg = <<2, 1>>
  /\ file.content = <<1>>
  /\ \E t \in DOMAIN backups : backups[t].content = <<2, 1>>

(* C17: when the rename of the existing destination to its backup name     *)
(* fails, _save_data still writes the new result set to the destination.   *)
C17_RenameFailureStillWrites ==
  (pc = "save_data" /\ Len(trace) > 0 /\ Last.out = "rename_fail") =>
    file = [exists |-> TRUE, content |-> Last.arg, complete |-> TRUE]

(* C18: a run cancelled from outside while in its poll loop returns        *)
(* failure and persists nothing.                                           *)
C18_CancelReturnsFailure ==
  Count("cancel") > 0 =>
    /\ Done
    /\ returns \in {<<RetFalse>>, <<RetNone>>}
    /\ Count("save") = 0

(* C19: a collector constructed with an empty or None API token fails at   *)
(* construction, so it never sends a trigger, status or fetch request.     *)
C19_AbsentTokenNoRequest ==
  TokenAbsent(api_token) =>
    /\ pc \in {"new", "ValueError"}
    /\ trace = <<>>

(* C20: in main of free_zillow_scraper a failed page request does not stop *)
(* the batch: pages 1..total_pages are requested once each in ascending    *)
(* order, and at the end pages_received is the number of pages that        *)
(* answered, which is the number of entries of results, and                *)
(* total_properties is the sum of their property counts.                   *)
C20_BatchSurvivesFailedPage ==
  LET answered == {i \in 1..Len(trace) : trace[i].out.ok}
      sum[i \in 0..Len(trace)] ==
        IF i = 0 THEN 0
        ELSE sum[i - 1] + (IF i \in answered
                             THEN Len(trace[i].out.listResults) ELSE 0)
  IN /\ \A i \in 1..Len(trace) : trace[i].op = "page" /\ trace[i].arg = i
     /\ Len(trace) <= total_pages
     /\ Done =>
          /\ Len(trace) = total_pages
          /\ dataset.pages_received = Cardinality(answered)
          /\ dataset.pages_received = Len(dataset.results)
          /\ dataset.total_properties = sum[Len(trace)]

C20_Witness ==
  /\ Done
  /\ \E i, j \in 1..Len(trace) :
       /\ i < j
       /\ ~trace[i].out.ok
       /\ trace[j].out.ok
       /\ trace[j].out.listResults # <<>>
  /\ \E k \in 1..Len(trace) : trace[k].out.ok /\ trace[k].out.listResults = <<>>
  /\ dataset.pages_received < total_pages

\* the return value of a finished run with the responses of `tr`, alone
AloneReturn(tr) ==
  IF tr # <<>> /\ tr[Len(tr)].op = "save" /\ tr[Len(tr)].out = "ok"
    THEN RetTrue ELSE RetFalse

\* the states of the output file, first f0, of a run with the responses of
\* `tr`, alone
AloneFiles(tr, f0) ==
  LET saves == {i \in 1..Len(tr) : tr[i].op = "save"} IN
  IF saves = {} THEN {f0}
  ELSE LET sv == tr[CHOOSE i \in saves : TRUE] IN
       CASE sv.out = "ok" ->
              {[exists |-> TRUE, content |-> sv.arg, complete |-> TRUE]}
         [] sv.out = "rename_fail" -> {f0}
         [] sv.out = "write_fail" ->
              {[exists |-> TRUE, content |-> sv.arg, complete |-> FALSE],
               IF f0.exists THEN NoFile ELSE f0}

(* C21: two concurrent runs of collect_properties with distinct output     *)
(* files: under every interleaving each run returns, and leaves in its own *)
(* output file, what it would alone with the same responses: the file is   *)
(* written only by its own save, with the data of its own fetch.           *)
C21_ConcurrentRunsIndependent ==
  \A r \in {Locals, other} :
    /\ r.pc = "done" => r.returns = <<AloneReturn(r.trace)>>
    /\ FileSystem[Path(r.output_file)].file
         \in AloneFiles(r.trace, InitialFile(Path(r.output_file)))
    /\ \A i \in 1..Len(r.trace) :
         r.trace[i].op = "save" =>
           /\ i > 1
           /\ r.trace[i - 1].op = "fetch"
           /\ r.trace[i - 1].out.data = r.trace[i].arg

C21_Witness ==
  /\ pc = "done"
  /\ other.pc = "done"
  /\ returns = <<RetTrue>>
  /\ other.returns = <<RetTrue>>
  /\ data # other.data
  /\ \E i \in 1..Len(trace), j \in 1..Len(other.trace) :
       /\ trace[i].op = "status"
       /\ other.trace[j].op = "fetch"
  /\ FileSystem["out1"].file.content # FileSystem["out2"].file.content

\* what a status query reports when it is answered with a status that is
\* none of ready, failed, error
NonTerminalReports ==
  (ReportedStatuses \ {"ready", "failed", "error"}) \cup {MissingStatus}

NonBlankInputs ==
  {i \in 1..Len(filters) :
     "location" \in DOMAIN filters[i] /\ ~Blank(filters[i]["location"])}

\* the k-th of them in input order
NonBlankInput(k) ==
  CHOOSE i \in NonBlankInputs :
    Cardinality({j \in NonBlankInputs : j <= i}) = k

(* C23: _clean_filters drops a record if and only if its location is       *)
(* missing, empty or whitespace-only: the body of a trigger request holds  *)
(* one record for each input record with a non-blank location, in input    *)
(* order, and none for any other input.                                    *)
C23_BodyIsNonBlankInputs ==
  \A e \in Indices("trigger") :
    LET body == trace[e].arg IN
    /\ Len(body) = Cardinality(NonBlankInputs)
    /\ \A k \in 1..Len(body) :
         /\ "location" \in DOMAIN body[k]
         /\ ~Blank(body[k]["location"])
         /\ DOMAIN body[k] \subseteq DOMAIN filters[NonBlankInput(k)]
         /\ \A key \in DOMAIN body[k] :
              body[k][key] = filters[NonBlankInput(k)][key]

C23_Witness ==
  /\ Indices("trigger") # {}
  /\ Len(filters) = MaxFilters
  /\ 1 \notin NonBlankInputs
  /\ "location" \in DOMAIN filters[1]
  /\ filters[1]["location"] = <<" ">>
  /\ Len(trace[1].arg) = 1
  /\ trace[1].arg[1]["location"] = <<" ", "a", " ">>
  /\ "HomeType" \in DOMAIN filters[NonBlankInput(1)]
  /\ "HomeType" \notin DOMAIN trace[1].arg[1]

\* the trigger requests of the run that were answered with a snapshot_id
HandlesIssued ==
  {i \in Indices("trigger") :
     trace[i].out.kind = "ok" /\ "snapshot_id" \in DOMAIN trace[i].out.resp}

(* C24: in every collector a run obtains at most one job handle, every     *)
(* status query and every fetch request of the run carries the snapshot_id *)
(* of the run's trigger response, and the handle is never replaced.        *)
C24_OneHandlePerRun ==
  LET issued == HandlesIssued IN
  /\ Cardinality(issued) <= 1
  /\ issued = {} =>
       /\ snapshot_id = NoneVal
       /\ \A j \in 1..Len(trace) : trace[j].op \notin {"status", "fetch"}
  /\ \A i \in issued :
       /\ snapshot_id = trace[i].out.resp["snapshot_id"]
       /\ \A j \in 1..Len(trace) :
            /\ trace[j].op = "trigger" => j <= i
            /\ trace[j].op \in {"status", "fetch"} =>
                 j > i /\ trace[j].arg = trace[i].out.resp["snapshot_id"]

C24_Witness ==
  /\ collector \in SimpleCollectors
  /\ \E i \in HandlesIssued : trace[i].out.resp["snapshot_id"] = "s2"
  /\ Count("status") = MaxPolls
  /\ Count("fetch") = 1
  /\ Done

\* two of the status queries st of the run with no status query between them
ConsecutiveStatus(st, i, j) ==
  /\ i < j
  /\ \A k \in st : ~(i < k /\ k < j)

(* C25: in every collector, between two consecutive status queries of a    *)
(* run there is exactly one suspension, of the poll interval of 5 time     *)
(* units: two status queries are never sent back to back.                  *)
C25_OneSleepBetweenPolls ==
  LET st == Indices("status") IN
  \A i, j \in st :
    ConsecutiveStatus(st, i, j) =>
      LET between == {k \in (i + 1)..(j - 1) : trace[k].op = "sleep"} IN
      /\ Cardinality(between) = 1
      /\ \A k \in between : trace[k].arg = 5 /\ trace[k].out = "poll"

C25_Witness ==
  /\ collector \in SimpleCollectors
  /\ \E i, j \in Indices("status") :
       /\ ConsecutiveStatus(Indices("status"), i, j)
       /\ trace[i].out = "ready"
       /\ \E k \in Indices("fetch") : i < k /\ k < j

(* C26: in every collector the elapsed time reported with a terminal       *)
(* status is the number of whole seconds between the start of the run and  *)
(* that observation, for every duration, a day or longer included.         *)
C26_ElapsedIsWholeSeconds ==
  \A i \in Indices("elapsed") : trace[i].out = trace[i].at - start_time

\* a complete file with content d
Holds(f, d) == f.exists /\ f.complete /\ f.content = d

(* C27: with backup enabled _save_data never loses persisted content:      *)
(* after any sequence of calls to one destination, every content that an   *)
(* earlier call wrote successfully is still in the destination or in one   *)
(* of its `.bak_` siblings.                                                *)
C27_NoPersistedContentLost ==
  \A i \in Indices("save") :
    trace[i].out = "ok" =>
      \/ Holds(file, trace[i].arg)
      \/ \E t \in DOMAIN backups : Holds(backups[t], trace[i].arg)

====
